---- MODULE Spec2Model ----
(***************************************************************************)
(* The post-generation hook of the AutoRA user cookiecutter                *)
(* (hooks/post_gen_project.py) as a state machine.                         *)
(*                                                                         *)
(* The hook is a single-threaded script.  Its state is the project         *)
(* directory (files and directories), the text of                          *)
(* researcher_hub/requirements.txt, the JSON document in                   *)
(* testing_zone/package.json, the local variables of the function that is  *)
(* running, and what it has shown and launched so far (prompts and         *)
(* subprocesses).  Each statement with an outside effect is one action.    *)
(***************************************************************************)
EXTENDS Integers, Sequences, FiniteSets, TLC

VARIABLES
    pc,              \* the statement the hook is at
    entry,           \* the function the interpreter was asked to run
    npm_package_file,\* the argument of create_autora_example_project
    calls,           \* how many times `entry` has been invoked
    files,           \* path -> identity of the content stored there
    dirs,            \* the directories that exist
    req,             \* the text of requirements.txt, as tokens
    pkg,             \* the document in testing_zone/package.json
    net,             \* what the manifest URL answers
    additional_deps, \* create_autora_hub_requirements: selections so far
    all_deps_clean,  \* create_autora_hub_requirements: group names of 'all'
    idx,             \* create_autora_hub_requirements: position of the for loop
    project_type,    \* create_autora_example_project: answers['project_type']
    example_file,    \* create_autora_example_project: the basename token
    prompts,         \* the inquirer prompts shown, in order
    procs,           \* the subprocesses launched, in order
    stages,          \* the functions of the hook entered, in order
    err,             \* the exception that ended the run, or "none"
    pre,             \* files, dirs, req and pkg when `entry` was last invoked
    workflow         \* the example workflow script that is running: its
                     \* position, loop variable and autora state object

vars == <<pc, entry, npm_package_file, calls, files, dirs, req, pkg, net,
          additional_deps, all_deps_clean, idx, project_type, example_file,
          prompts, procs, stages, err, pre, workflow>>

(***************************************************************************)
(* Bounds of the model.                                                    *)
(***************************************************************************)
MaxMissing == 1     \* staging files absent from the generated project
MaxAll == 2         \* entries of the manifest's 'all' group
MaxCalls == 2       \* invocations of clean_up in a row

(***************************************************************************)
(* Text.  A text is a sequence of tokens; NL is the newline character.     *)
(***************************************************************************)
NL == "\n"
None == "None"

RECURSIVE SubsetsUpTo(_, _)
SubsetsUpTo(S, n) ==
    IF n = 0 THEN {{}}
    ELSE LET smaller == SubsetsUpTo(S, n - 1)
         IN  smaller \cup {s \cup {x} : s \in smaller, x \in S}

\* Number of lines of a text as file.readlines() / str.splitlines() count
\* them: one per newline, and one more for a last line without a newline.
LineCount(text) ==
    Cardinality({i \in 1..Len(text) : text[i] = NL})
      + (IF Len(text) > 0 /\ text[Len(text)] # NL THEN 1 ELSE 0)

IsPrefix(s, t) == Len(s) <= Len(t) /\ SubSeq(t, 1, Len(s)) = s

Range(s) == {s[i] : i \in 1..Len(s)}

\* f.write(f'\n{a}') with the file opened in mode 'a'
AppendLineBroken(text, a) == text \o <<a>>
AppendLineTruncating(text, a) == <<NL, a>>
AppendLine(text, a) == text \o <<NL, a>>

RECURSIVE AppendAll(_, _)
AppendAll(text, items) ==
    IF items = <<>> THEN text
    ELSE AppendAll(AppendLine(text, Head(items)), Tail(items))

(***************************************************************************)
(* The file system.  A directory is the sequence of its path components,   *)
(* a file path is a directory and a file name; a file name built by an     *)
(* f-string is the sequence of its parts.                                  *)
(***************************************************************************)
P(dir, name) == [dir |-> dir, name |-> name]
\* the default of the parameter npm_package_file (line 85)
NoPath == P(<<>>, <<None>>)

Temp == <<"temp">>
ExampleWorkflows == <<"example_workflows">>
ExampleMains == <<"example_mains">>
ExampleCss == <<"example_css">>
Readmes == <<"readmes">>
ResearcherHub == <<"researcher_hub">>
TestingZone == <<"testing_zone">>
TestingZoneSrc == <<"testing_zone", "src">>
TestingZoneDesign == <<"testing_zone", "src", "design">>
TestingZoneCss == <<"testing_zone", "src", "css">>

MainJs(token) == P(ExampleMains, <<token, ".js">>)
WorkflowPy(token) == P(ExampleWorkflows, <<token, ".py">>)
ReadmeFirebase(token) == P(Readmes, <<"README_FIREBASE_", token, ".md">>)
ReadmeAutora == P(Readmes, <<"README_AUTORA", ".md">>)
BanditCss == P(ExampleCss, <<"js_psych_bandit", ".css">>)

DesignMainJs == P(TestingZoneDesign, <<"main", ".js">>)
HubWorkflow == P(ResearcherHub, <<"autora_workflow", ".py">>)
HubReadme == P(ResearcherHub, <<"README", ".md">>)
ZoneReadme == P(TestingZone, <<"README", ".md">>)
SlotMachineCss == P(TestingZoneCss, <<"slot-machine", ".css">>)
PackageJson == P(TestingZone, <<"package", ".json">>)
TempFile == P(Temp, <<"pyvenv", ".cfg">>)

Under(d, root) == IsPrefix(root, d)
Parent(d) == SubSeq(d, 1, Len(d) - 1)

\* shutil.move(src, dst) for a file src and a dst that is no directory:
\* raises FileNotFoundError when src, or the directory of dst, is missing
CanMove(fl, ds, src, dst) == src \in DOMAIN fl /\ dst.dir \in ds
Move(fl, src, dst) ==
    [p \in (DOMAIN fl \ {src}) \cup {dst} |-> IF p = dst THEN fl[src] ELSE fl[p]]
MoveOutcomeSkipMissing(fl, ds, src, dst) ==
    IF src \notin DOMAIN fl THEN [raised |-> FALSE, files |-> fl]
    ELSE IF dst.dir \notin ds THEN [raised |-> TRUE, files |-> fl]
    ELSE [raised |-> FALSE, files |-> Move(fl, src, dst)]
MoveOutcome(fl, ds, src, dst) ==
    IF CanMove(fl, ds, src, dst) THEN [raised |-> FALSE, files |-> Move(fl, src, dst)]
    ELSE [raised |-> TRUE, files |-> fl]

\* shutil.rmtree(root): the directory, and everything below it
RmtreeFiles(fl, root) == [p \in {q \in DOMAIN fl : ~Under(q.dir, root)} |-> fl[p]]
RmtreeDirsKeep(ds, root) == ds
RmtreeDirs(ds, root) == {d \in ds : ~Under(d, root)}

(***************************************************************************)
(* The manifest (pyproject.toml of autora) and its parsing.                *)
(***************************************************************************)
Firebase == "autora[experiment-runner-firebase-prolific]"
PkgA == "autora[experiment-runner-synthetic]"

GroupRunners == <<"all-", "experiment-runners">>
GroupTheorists == <<"all-", "theorists">>
GroupAbsent == <<"all-", "experimentalists">>
GroupDev == <<"dev">>

AllEntry(group) == <<"autora", "[">> \o group \o <<"]">>
EntryNoBracket == <<"autora">>
AllEntries ==
    {AllEntry(GroupRunners), AllEntry(GroupTheorists), AllEntry(GroupAbsent),
     EntryNoBracket}

\* str.split(sep): the pieces between the occurrences of sep
RECURSIVE Split(_, _)
Split(s, sep) ==
    IF \A i \in 1..Len(s) : s[i] # sep THEN <<s>>
    ELSE LET k == CHOOSE i \in 1..Len(s) :
                     s[i] = sep /\ \A j \in 1..(i - 1) : s[j] # sep
         IN  <<SubSeq(s, 1, k - 1)>> \o Split(SubSeq(s, k + 1, Len(s)), sep)

\* s.split("[")[1].split("]")[0], defined when "[" occurs in s
HasBracket(s) == Len(Split(s, "[")) >= 2
CleanDep(s) == Split(Split(s, "[")[2], "]")[1]

\* str.replace(old, ''), for a one-token old
RECURSIVE Replace(_, _)
Replace(s, old) ==
    IF s = <<>> THEN <<>>
    ELSE (IF Head(s) = old THEN <<>> ELSE <<Head(s)>>) \o Replace(Tail(s), old)

SeqsUpTo(S, n) == UNION {[1..k -> S] : k \in 0..n}

\* a manifest: which tables it has, the 'all' list, the other groups
Manifest(shape, all, groups) == [shape |-> shape, all |-> all, groups |-> groups]

DevOnly == [g \in {GroupDev} |-> <<"pytest">>]
Groups(runners, theorists) ==
    [g \in {GroupRunners, GroupTheorists, GroupDev} |->
        IF g = GroupRunners THEN runners
        ELSE IF g = GroupTheorists THEN theorists ELSE <<"pytest">>]

WellFormedManifests ==
    {Manifest("ok", all, Groups(r, t)) :
        all \in SeqsUpTo(AllEntries, MaxAll),
        r \in {<<>>, <<Firebase, PkgA>>},
        t \in {<<>>, <<PkgA>>}}
BrokenManifests ==
    {Manifest("no_project", <<>>, DevOnly),
     Manifest("no_optional_dependencies", <<>>, DevOnly),
     Manifest("no_all", <<>>, DevOnly)}
NetDown == Manifest("unreachable", <<>>, DevOnly)
Responses == WellFormedManifests \cup BrokenManifests \cup {NetDown}
UsualManifest ==
    Manifest("ok", <<AllEntry(GroupRunners)>>, Groups(<<Firebase, PkgA>>, <<>>))

\* doc["project"]["optional-dependencies"]["all"] raises for these shapes
HasAll(doc) == doc.shape = "ok"

\* inquirer.Checkbox: any of the choices, in the order they were ticked
Picks(lst) ==
    {s \in SeqsUpTo(Range(lst), Len(lst)) :
        \A i, j \in 1..Len(s) : i # j => s[i] # s[j]}

(***************************************************************************)
(* The generated project before the hook runs.                             *)
(***************************************************************************)
Labels ==
    {"Blank", "Double Sweet", "JsPsych - Stroop", "JsPsych - RDK",
     "JsPsych - Bandit", "SuperExperiment", "SweetBean",
     "Mathematical Model Discovery"}
Tokens ==
    {"basic", "double_sweet", "js_psych_stroop", "js_psych_rdk",
     "js_psych_bandit", "super_experiment", "sweet_bean",
     "mathematical_model_discovery"}

StagingFiles ==
    {MainJs(t) : t \in Tokens} \cup {WorkflowPy(t) : t \in Tokens}
      \cup {ReadmeFirebase(t) : t \in Tokens} \cup {ReadmeAutora, BanditCss}
StagingDirs == {ExampleWorkflows, ExampleMains, ExampleCss, Readmes}

PriorContents == {<<>>, <<"numpy">>, <<"numpy", NL>>}

Absent == [format |-> "absent", name |-> "", dependencies |-> <<>>]
\* package.json as create-react-app's autora-firebase template writes it
TemplateDeps == [k \in {"react", "jspsych"} |->
                    IF k = "react" THEN "^18.2.0" ELSE "^7.0.0"]
TemplatePackage ==
    [format |-> "template", name |-> "testing_zone", dependencies |-> TemplateDeps]

EntryPoints ==
    {"main", "clean_up", "create_autora_hub_requirements", "setup_basic",
     "create_autora_example_project"}

InitialFiles(missing, temp) ==
    [p \in (StagingFiles \ missing) \cup (IF temp THEN {TempFile} ELSE {}) |-> p]
InitialDirs(temp) ==
    StagingDirs \cup {ResearcherHub} \cup (IF temp THEN {Temp} ELSE {})

Snapshot == [files |-> files, dirs |-> dirs, req |-> req, pkg |-> pkg,
             prompts |-> Len(prompts), procs |-> Len(procs)]

\* One thing is varied at a time: the staging files that are absent, or the
\* prior requirements text, the temp directory and (where the manifest is
\* read: main and the menu builder) the manifest.
UsualRequirements == <<"numpy">>

\* the autora state object before a script has built it
NoConditions == [by |-> "none", num_samples |-> 0, cycle |-> 0]
NotStarted ==
    [script |-> "none", at |-> "none", RUNNER_TYPE |-> "none", cycle |-> 0,
     conditions |-> NoConditions, experiment_data |-> <<>>, models |-> <<>>,
     models_additional |-> <<>>, ran |-> <<>>, err |-> "none"]

HookInit ==
    /\ pc = "idle"
    /\ entry \in EntryPoints
    /\ npm_package_file \in
         (IF entry = "create_autora_example_project" THEN {NoPath, PackageJson}
          ELSE {NoPath})
    /\ calls = 0
    /\ req \in PriorContents
    /\ \E missing \in SubsetsUpTo(StagingFiles, MaxMissing), temp \in BOOLEAN :
         /\ missing # {} => temp /\ req = UsualRequirements
         /\ files = InitialFiles(missing, temp)
         /\ dirs = InitialDirs(temp)
         /\ net \in (IF entry \in {"main", "create_autora_hub_requirements"}
                        /\ missing = {} /\ temp /\ req = UsualRequirements
                     THEN Responses ELSE {UsualManifest})
    /\ pkg = Absent
    /\ additional_deps = <<>>
    /\ all_deps_clean = <<>>
    /\ idx = 0
    /\ project_type = None
    /\ example_file = None
    /\ prompts = <<>>
    /\ procs = <<>>
    /\ stages = <<>>
    /\ err = "none"
    /\ pre = [files |-> files, dirs |-> dirs, req |-> req, pkg |-> pkg,
              prompts |-> 0, procs |-> 0]

Init == HookInit /\ workflow = NotStarted

(***************************************************************************)
(* Control: invoking the entry point, returning, raising.                  *)
(***************************************************************************)
StartOf(fn) ==
    CASE fn = "main" -> "main"
      [] fn = "clean_up" -> "clean_up"
      [] fn = "create_autora_hub_requirements" -> "hub_fetch"
      [] fn = "setup_basic" -> "basic_probe"
      [] fn = "create_autora_example_project" -> "ex_prompt"

\* where a function called from main returns to; a function invoked on its
\* own returns to the interpreter
ReturnTo(inMain) == IF entry = "main" THEN inMain ELSE "idle"

Locals == <<additional_deps, all_deps_clean, idx, project_type, example_file>>
ClearLocals ==
    /\ additional_deps' = <<>>
    /\ all_deps_clean' = <<>>
    /\ idx' = 0
    /\ project_type' = None
    /\ example_file' = None

\* what no statement of the hook changes; the hook runs no workflow script
Env == <<entry, npm_package_file, calls, net, pre, workflow>>
Disk == <<files, dirs, req, pkg>>

\* python3 hooks/post_gen_project.py runs main() once.  A function imported
\* from the module is invoked once as well, except clean_up, which is meant
\* to be safe to repeat and is invoked up to MaxCalls times in a row.
Invoke ==
    /\ pc = "idle"
    /\ calls < (IF entry = "clean_up" THEN MaxCalls ELSE 1)
    /\ pc' = StartOf(entry)
    /\ calls' = calls + 1
    /\ pre' = Snapshot
    /\ UNCHANGED <<entry, npm_package_file, net, Disk, Locals, prompts, procs,
                   stages, err, workflow>>

\* an unhandled exception: nothing catches it, the process ends
Raise(e) == pc' = "crashed" /\ err' = e

(***************************************************************************)
(* Subprocesses.  procs logs every command the hook tries to run with how  *)
(* it ended: exit code zero, exit code non-zero, or not_found when the     *)
(* executable does not exist and no process was started.  A command run    *)
(* with shell=True always starts (the shell exists), so it never ends      *)
(* not_found.                                                              *)
(***************************************************************************)
Exits == {"zero", "nonzero"}
NotFound == "not_found"
Proc(cmd, exit) == [cmd |-> cmd, exit |-> exit]

Deactivate == "deactivate"
NpmInstall == "npm install -g firebase-tools"
Npx == "npx create-react-app testing_zone --template autora-firebase"
FirebaseVersion == "firebase --version"

\* subprocess.call returns the exit code, and every caller drops it
CallOutcomeChecked(exit) == IF exit = "zero" THEN "returns" ELSE "CalledProcessError"
CallOutcome(exit) == "returns"

(***************************************************************************)
(* clean_up (lines 10-14)                                                  *)
(***************************************************************************)
\* line 12: the body of the if, deactivate included, runs only with temp there
CleanUpDeactivatesAlways(ds) == TRUE
CleanUpDeactivates(ds) == Temp \in ds
CleanUpFiles(fl, ds) == IF Temp \in ds THEN RmtreeFiles(fl, Temp) ELSE fl
CleanUpDirsKeep(ds) == ds
CleanUpDirs(ds) == IF Temp \in ds THEN RmtreeDirs(ds, Temp) ELSE ds

clean_up ==
    /\ pc = "clean_up"
    /\ stages' = Append(stages, "clean_up")
    /\ IF CleanUpDeactivates(dirs)
       THEN \E exit \in Exits :
              /\ procs' = Append(procs, Proc(Deactivate, exit))
              /\ IF CallOutcome(exit) = "returns"
                 THEN /\ files' = CleanUpFiles(files, dirs)
                      /\ dirs' = CleanUpDirs(dirs)
                      /\ pc' = ReturnTo("end")
                      /\ err' = err
                 ELSE /\ Raise(CallOutcome(exit))
                      /\ UNCHANGED <<files, dirs>>
       ELSE /\ pc' = ReturnTo("end")
            /\ UNCHANGED <<procs, files, dirs, err>>
    /\ UNCHANGED <<req, pkg, Env, Locals, prompts>>

(***************************************************************************)
(* inquirer.prompt: an answer, or {} when the user cancels (Ctrl-C), and   *)
(* then answer[key] raises KeyError                                        *)
(***************************************************************************)
Cancelled == "cancelled"
YesNo == {"yes", "no"}
\* one prompt of the session: the question and what came back for its key
\* (a List gives one choice, a Checkbox a list of them, a cancel nothing)
Shown(kind, key, choices, answer) ==
    [kind |-> kind, key |-> key, choices |-> choices,
     answer |-> IF answer = <<Cancelled>> THEN <<>> ELSE answer,
     cancelled |-> answer = <<Cancelled>>]

(***************************************************************************)
(* main (lines 176-187) and basic_or_advanced (lines 17-24)                *)
(***************************************************************************)
AfterMode(answer) == IF answer = "yes" THEN "hub_fetch" ELSE "basic_probe"

AfterHubAlways(selected) == "ex_prompt"
AfterHubSkipCleanup(selected) ==
    IF Firebase \in Range(selected) THEN "ex_prompt" ELSE "end"
AfterHub(selected) ==
    IF Firebase \in Range(selected) THEN "ex_prompt" ELSE "clean_up"

basic_or_advanced ==
    /\ pc = "main"
    /\ stages' = Append(stages, "basic_or_advanced")
    /\ \E answer \in YesNo \cup {Cancelled} :
         /\ prompts' = Append(prompts, Shown("List", <<"advanced">>, YesNo, <<answer>>))
         /\ IF answer = Cancelled THEN Raise("KeyError")
            ELSE pc' = AfterMode(answer) /\ err' = err
    /\ UNCHANGED <<Disk, Env, Locals, procs>>

(***************************************************************************)
(* create_autora_hub_requirements (lines 27-60)                            *)
(***************************************************************************)
\* lines 28-36: what the fetch and the parse raise, if anything
FetchErrorOffline(doc) ==
    IF doc.shape = "unreachable" THEN "none"
    ELSE IF ~HasAll(doc) THEN "KeyError"
    ELSE IF \E i \in 1..Len(doc.all) : ~HasBracket(doc.all[i]) THEN "IndexError"
    ELSE "none"
FetchError(doc) ==
    IF doc.shape = "unreachable" THEN "ConnectionError"
    ELSE IF ~HasAll(doc) THEN "KeyError"
    ELSE IF \E i \in 1..Len(doc.all) : ~HasBracket(doc.all[i]) THEN "IndexError"
    ELSE "none"

AllDepsClean(doc) == [i \in 1..Len(doc.all) |-> CleanDep(doc.all[i])]

hub_fetch ==
    /\ pc = "hub_fetch"
    /\ stages' = Append(stages, "create_autora_hub_requirements")
    /\ IF FetchError(net) # "none"
       THEN /\ Raise(FetchError(net))
            /\ UNCHANGED <<all_deps_clean, idx, additional_deps>>
       ELSE /\ all_deps_clean' = AllDepsClean(net)
            /\ additional_deps' = <<>>
            /\ idx' = 1
            /\ pc' = "hub_loop"
            /\ err' = err
    /\ UNCHANGED <<Disk, Env, project_type, example_file, prompts, procs>>

PromptType(deps) == Replace(deps, "all-")
NeedsPromptAlways(lst) == TRUE
NeedsPrompt(lst) == lst # <<>>
Extend(selected, answer) == selected \o answer

\* the loop only collects the selections: the file is not opened before
\* line 56, after the last iteration
WrittenInLoopEager(text, selected) == AppendAll(text, selected)
WrittenInLoop(text, selected) == text

\* one iteration of the for loop (lines 41-53)
hub_loop ==
    /\ pc = "hub_loop"
    /\ idx <= Len(all_deps_clean)
    /\ LET deps == all_deps_clean[idx] IN
         IF deps \notin DOMAIN net.groups
         THEN /\ Raise("KeyError")
              /\ UNCHANGED <<idx, additional_deps, prompts>>
         ELSE LET lst == net.groups[deps] IN
              IF NeedsPrompt(lst)
              THEN \E answer \in Picks(lst) \cup {<<Cancelled>>} :
                     /\ prompts' =
                          Append(prompts,
                                 Shown("Checkbox", PromptType(deps), Range(lst),
                                       answer))
                     /\ IF answer = <<Cancelled>>
                        THEN /\ Raise("KeyError")
                             /\ UNCHANGED <<idx, additional_deps>>
                        ELSE /\ additional_deps' = Extend(additional_deps, answer)
                             /\ idx' = idx + 1
                             /\ UNCHANGED <<pc, err>>
              ELSE /\ idx' = idx + 1
                   /\ UNCHANGED <<pc, err, additional_deps, prompts>>
    /\ req' = WrittenInLoop(req, additional_deps')
    /\ UNCHANGED <<files, dirs, pkg, Env, all_deps_clean, project_type,
                   example_file, procs, stages>>

\* lines 55-60: the append and the return value
hub_write ==
    /\ pc = "hub_loop"
    /\ idx > Len(all_deps_clean)
    /\ req' = AppendAll(req, additional_deps)
    /\ pc' = ReturnTo(AfterHub(additional_deps))
    /\ ClearLocals
    /\ UNCHANGED <<files, dirs, pkg, Env, prompts, procs, stages, err>>

(***************************************************************************)
(* Steps shared by setup_basic and create_autora_example_project           *)
(***************************************************************************)
\* subprocess.call(['npx', 'create-react-app', 'testing_zone', ...]): the
\* exit code is dropped; only a missing npx executable raises
ScaffoldOutcomes == {"created", "exit_nonzero", "npx_not_found"}
ScaffoldedFiles == {PackageJson, DesignMainJs, ZoneReadme}
ScaffoldedDirs == {TestingZone, TestingZoneSrc, TestingZoneDesign}

ScaffoldExit(outcome) ==
    CASE outcome = "created" -> "zero"
      [] outcome = "exit_nonzero" -> "nonzero"
      [] outcome = "npx_not_found" -> NotFound

Scaffold(next) ==
    /\ \E outcome \in ScaffoldOutcomes :
         LET result == IF outcome = "npx_not_found" THEN "FileNotFoundError"
                       ELSE CallOutcome(ScaffoldExit(outcome)) IN
         /\ outcome = "created" => TestingZone \notin dirs
         /\ procs' = Append(procs, Proc(Npx, ScaffoldExit(outcome)))
         /\ IF result = "returns"
            THEN pc' = next /\ err' = err
            ELSE Raise(result)
         /\ IF outcome = "created"
            THEN /\ dirs' = dirs \cup ScaffoldedDirs
                 /\ files' = [p \in DOMAIN files \cup ScaffoldedFiles |->
                                IF p \in ScaffoldedFiles THEN p ELSE files[p]]
                 /\ pkg' = TemplatePackage
            ELSE UNCHANGED <<files, dirs, pkg>>
    /\ UNCHANGED <<req, Env, Locals, prompts, stages>>

AppendStep(lines, next) ==
    /\ req' = AppendAll(req, lines)
    /\ pc' = next
    /\ UNCHANGED <<files, dirs, pkg, Env, Locals, prompts, procs, stages, err>>

MoveStep(src, dst, next) ==
    /\ LET moved == MoveOutcome(files, dirs, src, dst) IN
         /\ files' = moved.files
         /\ IF moved.raised THEN Raise("FileNotFoundError")
            ELSE pc' = next /\ err' = err
    /\ UNCHANGED <<dirs, req, pkg, Env, Locals, prompts, procs, stages>>

RmtreeStep(root, next) ==
    /\ IF root \in dirs
       THEN /\ files' = RmtreeFiles(files, root)
            /\ dirs' = RmtreeDirs(dirs, root)
            /\ pc' = next
            /\ err' = err
       ELSE /\ Raise("FileNotFoundError")
            /\ UNCHANGED <<files, dirs>>
    /\ UNCHANGED <<req, pkg, Env, prompts, procs, stages>>

(***************************************************************************)
(* check_if_firebase_tools_installed (lines 167-173) and setup_basic       *)
(* (lines 63-82)                                                           *)
(***************************************************************************)
\* subprocess.check_output(['firebase', '--version'])
ProbeOutcomes == {"exit_zero", "exit_nonzero", "firebase_not_found"}
check_if_firebase_tools_installed(outcome) ==
    CASE outcome = "exit_zero" -> "True"
      [] outcome = "exit_nonzero" -> "False"
      [] outcome = "firebase_not_found" -> "FileNotFoundError"

ProbeExit(outcome) ==
    CASE outcome = "exit_zero" -> "zero"
      [] outcome = "exit_nonzero" -> "nonzero"
      [] outcome = "firebase_not_found" -> NotFound

basic_probe ==
    /\ pc = "basic_probe"
    /\ stages' = Append(stages, "setup_basic")
    /\ \E outcome \in ProbeOutcomes :
         LET installed == check_if_firebase_tools_installed(outcome) IN
         /\ procs' = Append(procs, Proc(FirebaseVersion, ProbeExit(outcome)))
         /\ IF installed = "FileNotFoundError" THEN Raise("FileNotFoundError")
            ELSE /\ pc' = IF installed = "True" THEN "basic_scaffold" ELSE "basic_npm"
                 /\ err' = err
    /\ UNCHANGED <<Disk, Env, Locals, prompts>>

\* subprocess.call(['npm', 'install', '-g', 'firebase-tools'], shell=True)
basic_npm ==
    /\ pc = "basic_npm"
    /\ \E exit \in Exits :
         /\ procs' = Append(procs, Proc(NpmInstall, exit))
         /\ IF CallOutcome(exit) = "returns"
            THEN pc' = "basic_scaffold" /\ err' = err
            ELSE Raise(CallOutcome(exit))
    /\ UNCHANGED <<Disk, Env, Locals, prompts, stages>>

basic_scaffold ==
    /\ pc = "basic_scaffold"
    /\ Scaffold("basic_append")

BasicLinesTwice == <<"autora", "autora">>
BasicLines == <<"autora">>
basic_append ==
    /\ pc = "basic_append"
    /\ AppendStep(BasicLines, "basic_mv_main")

BasicToken == "basic"
basic_mv_main ==
    /\ pc = "basic_mv_main"
    /\ MoveStep(MainJs(BasicToken), DesignMainJs, "basic_mv_workflow")
basic_mv_workflow ==
    /\ pc = "basic_mv_workflow"
    /\ MoveStep(WorkflowPy(BasicToken), HubWorkflow,
             "basic_mv_readme_hub")
basic_mv_readme_hub ==
    /\ pc = "basic_mv_readme_hub"
    /\ MoveStep(ReadmeAutora, HubReadme, "basic_mv_readme_zone")
basic_mv_readme_zone ==
    /\ pc = "basic_mv_readme_zone"
    /\ MoveStep(ReadmeFirebase(BasicToken), ZoneReadme,
             "basic_rm_workflows")

basic_rm_workflows ==
    /\ pc = "basic_rm_workflows"
    /\ RmtreeStep(ExampleWorkflows, "basic_rm_mains")
    /\ UNCHANGED Locals
basic_rm_mains ==
    /\ pc = "basic_rm_mains"
    /\ RmtreeStep(ExampleMains, "basic_rm_readmes")
    /\ UNCHANGED Locals
basic_rm_readmes ==
    /\ pc = "basic_rm_readmes"
    /\ RmtreeStep(Readmes, ReturnTo("clean_up"))
    /\ UNCHANGED Locals

(***************************************************************************)
(* create_autora_example_project (lines 85-164)                            *)
(***************************************************************************)
\* lines 114-144: the chain of ifs that sets example_file
ExampleFileAllBasic(label) == "basic"
ExampleFile(label) ==
    CASE label = "JsPsych - Stroop" -> "js_psych_stroop"
      [] label = "JsPsych - RDK" -> "js_psych_rdk"
      [] label = "SuperExperiment" -> "super_experiment"
      [] label = "SweetBean" -> "sweet_bean"
      [] label = "Double Sweet" -> "double_sweet"
      [] label = "Mathematical Model Discovery" -> "mathematical_model_discovery"
      [] label = "JsPsych - Bandit" -> "js_psych_bandit"
      [] OTHER -> "basic"

\* the first statement with an effect after the project_type prompt
AfterType(label) ==
    CASE label = "SweetBean" -> "ex_sweetbean_append"
      [] label = "Double Sweet" -> "ex_double_append"
      [] label = "JsPsych - Bandit" -> "ex_bandit_mkdir"
      [] OTHER -> "ex_mv_main"

AfterFirebaseSwapped(answer) == IF answer = "no" THEN "ex_scaffold" ELSE ReturnTo("clean_up")
AfterFirebase(answer) == IF answer = "no" THEN ReturnTo("clean_up") ELSE "ex_scaffold"

ex_prompt ==
    /\ pc = "ex_prompt"
    /\ stages' = Append(stages, "create_autora_example_project")
    /\ \E answer \in YesNo \cup {Cancelled} :
         /\ prompts' = Append(prompts, Shown("List", <<"firebase">>, YesNo, <<answer>>))
         /\ IF answer = Cancelled THEN Raise("KeyError")
            ELSE pc' = AfterFirebase(answer) /\ err' = err
    /\ UNCHANGED <<Disk, Env, Locals, procs>>

ex_scaffold ==
    /\ pc = "ex_scaffold"
    /\ Scaffold("ex_type")

ex_type ==
    /\ pc = "ex_type"
    /\ \E answer \in Labels \cup {Cancelled} :
         /\ prompts' =
              Append(prompts, Shown("List", <<"project_type">>, Labels, <<answer>>))
         /\ IF answer = Cancelled
            THEN Raise("KeyError") /\ UNCHANGED <<project_type, example_file>>
            ELSE /\ project_type' = answer
                 /\ example_file' = ExampleFile(answer)
                 /\ pc' = AfterType(answer)
                 /\ err' = err
    /\ UNCHANGED <<Disk, Env, additional_deps, all_deps_clean, idx, procs, stages>>

SweetBeanLinesNone == <<>>
SweetBeanLines == <<"sweetbean">>
ex_sweetbean_append ==
    /\ pc = "ex_sweetbean_append"
    /\ AppendStep(SweetBeanLines, "ex_mv_main")

DoubleSweetLines == <<"sweetbean", "sweetpea">>
ex_double_append ==
    /\ pc = "ex_double_append"
    /\ AppendStep(DoubleSweetLines, "ex_double_manifest")

\* lines 135-137
DoubleSweetDeps ==
    [k \in {"@jspsych-contrib/plugin-rok", "jspsych", "sweetbean"} |->
        CASE k = "@jspsych-contrib/plugin-rok" -> "^1.1.1"
          [] k = "jspsych" -> "^7.3.1"
          [] k = "sweetbean" -> "^0.0.7"]
AddDeps(deps) ==
    [k \in DOMAIN deps \cup DOMAIN DoubleSweetDeps |->
        IF k \in DOMAIN DoubleSweetDeps THEN DoubleSweetDeps[k] ELSE deps[k]]

\* lines 133-139: open(npm_package_file), json.load, the three assignments,
\* json.dump(..., indent=2)
ManifestError(path, fl) ==
    IF path = NoPath THEN "TypeError"
    ELSE IF path \notin DOMAIN fl THEN "FileNotFoundError"
    ELSE "none"

ex_double_manifest ==
    /\ pc = "ex_double_manifest"
    /\ IF ManifestError(npm_package_file, files) # "none"
       THEN Raise(ManifestError(npm_package_file, files)) /\ pkg' = pkg
       ELSE /\ pkg' = [pkg EXCEPT !.format = "indent=2",
                                  !.dependencies = AddDeps(@)]
            /\ pc' = "ex_mv_main"
            /\ err' = err
    /\ UNCHANGED <<files, dirs, req, Env, Locals, prompts, procs, stages>>

\* os.mkdir(testing_zone/src/css)
ex_bandit_mkdir ==
    /\ pc = "ex_bandit_mkdir"
    /\ IF Parent(TestingZoneCss) \notin dirs
       THEN Raise("FileNotFoundError") /\ dirs' = dirs
       ELSE IF TestingZoneCss \in dirs
       THEN Raise("FileExistsError") /\ dirs' = dirs
       ELSE dirs' = dirs \cup {TestingZoneCss} /\ pc' = "ex_bandit_css" /\ err' = err
    /\ UNCHANGED <<files, req, pkg, Env, Locals, prompts, procs, stages>>

ex_bandit_css ==
    /\ pc = "ex_bandit_css"
    /\ MoveStep(BanditCss, SlotMachineCss, "ex_bandit_append")

BanditLines == <<"autora-theorist-rnn-sindy-rl">>
ex_bandit_append ==
    /\ pc = "ex_bandit_append"
    /\ AppendStep(BanditLines, "ex_mv_main")

ex_mv_main ==
    /\ pc = "ex_mv_main"
    /\ MoveStep(MainJs(example_file), DesignMainJs, "ex_mv_workflow")
ex_mv_workflow ==
    /\ pc = "ex_mv_workflow"
    /\ MoveStep(WorkflowPy(example_file), HubWorkflow,
             "ex_mv_readme_hub")
ex_mv_readme_hub ==
    /\ pc = "ex_mv_readme_hub"
    /\ MoveStep(ReadmeAutora, HubReadme, "ex_mv_readme_zone")
ex_mv_readme_zone ==
    /\ pc = "ex_mv_readme_zone"
    /\ MoveStep(ReadmeFirebase(example_file), ZoneReadme,
             "ex_rm_workflows")

ex_rm_workflows ==
    /\ pc = "ex_rm_workflows"
    /\ RmtreeStep(ExampleWorkflows, "ex_rm_mains")
    /\ UNCHANGED Locals
ex_rm_mains ==
    /\ pc = "ex_rm_mains"
    /\ RmtreeStep(ExampleMains, "ex_rm_css")
    /\ UNCHANGED Locals
ex_rm_css ==
    /\ pc = "ex_rm_css"
    /\ RmtreeStep(ExampleCss, "ex_rm_readmes")
    /\ UNCHANGED Locals
ex_rm_readmes ==
    /\ pc = "ex_rm_readmes"
    /\ RmtreeStep(Readmes, ReturnTo("clean_up"))
    /\ IF Readmes \in dirs THEN ClearLocals ELSE UNCHANGED Locals

(***************************************************************************)
(* The hook                                                                *)
(***************************************************************************)
Next ==
    \/ Invoke
    \/ basic_or_advanced
    \/ hub_fetch
    \/ hub_loop
    \/ hub_write
    \/ basic_probe
    \/ basic_npm
    \/ basic_scaffold
    \/ basic_append
    \/ basic_mv_main
    \/ basic_mv_workflow
    \/ basic_mv_readme_hub
    \/ basic_mv_readme_zone
    \/ basic_rm_workflows
    \/ basic_rm_mains
    \/ basic_rm_readmes
    \/ ex_prompt
    \/ ex_scaffold
    \/ ex_type
    \/ ex_sweetbean_append
    \/ ex_double_append
    \/ ex_double_manifest
    \/ ex_bandit_mkdir
    \/ ex_bandit_css
    \/ ex_bandit_append
    \/ ex_mv_main
    \/ ex_mv_workflow
    \/ ex_mv_readme_hub
    \/ ex_mv_readme_zone
    \/ ex_rm_workflows
    \/ ex_rm_mains
    \/ ex_rm_css
    \/ ex_rm_readmes
    \/ clean_up

Spec == Init /\ [][Next]_vars

\* python3 hooks/post_gen_project.py: the interpreter runs main() to its end;
\* no step waits on anything but a blocking prompt or subprocess, which returns
MainInit == Init /\ entry = "main"
FairSpec == MainInit /\ [][Next]_vars /\ WF_vars(Next)

(***************************************************************************)
(* The example workflow scripts (example_workflows/*.py).  Each script     *)
(* builds an autora state object and runs components on it in a for loop.  *)
(* A component wrapped with on_state reads fields of the state and returns *)
(* a Delta: conditions are replaced, experiment_data, models and           *)
(* models_additional are extended.  workflow.ran lists the components      *)
(* called so far in the current iteration of the loop.  The components     *)
(* themselves are library code: a runner returns rows, returns none or     *)
(* raises, and what a theorist or sampler does with no experiment data is  *)
(* left open (it fits or it raises).                                       *)
(***************************************************************************)
HookVars == <<pc, entry, npm_package_file, calls, files, dirs, req, pkg, net,
              additional_deps, all_deps_clean, idx, project_type, example_file,
              prompts, procs, stages, err, pre>>

Scripts ==
    {"double_sweet", "js_psych_rdk", "js_psych_bandit",
     "mathematical_model_discovery"}
RunnerTypes == {"synthetic", "firebase", "prolific"}

\* double_sweet.py: for _ in range(3), num_samples=2
DsCycles == 3
DsSamples == 2
\* js_psych_rdk.py: for _ in range(3), pool(variables, num_samples=2)
RdkCycles == 3
RdkSamples == 2
\* mathematical_model_discovery.py: for cycle in range(4), num_samples 3 / 100 / 3
MmdCycles == 4
MmdFew == 3
MmdMany == 100
MmdFalsified == 3
\* js_psych_bandit.py
CYCLES == 4
SAMPLES_PER_CYCLE == 1
PoolSize == 20

Call(kind, name, n) == [kind |-> kind, name |-> name, num_samples |-> n]

Log(w, call) == [w EXCEPT !.ran = Append(@, call)]
Goto(w, at) == [w EXCEPT !.at = at]
Crashed(w, e) == [w EXCEPT !.at = "crashed", !.err = e]
\* the first statement of the loop body starts a new iteration
FirstOfCycle(w) == [w EXCEPT !.ran = <<>>]
\* the for statement: the next value of the loop variable, or the loop is over
NextCycle(w, last, head, after) ==
    IF w.cycle < last THEN [w EXCEPT !.cycle = @ + 1, !.at = head]
    ELSE [w EXCEPT !.at = after]

\* Delta(conditions=...), Delta(experiment_data=...), Delta(models=[...])
SetConditions(w, call) ==
    [w EXCEPT !.conditions =
         [by |-> call.name, num_samples |-> call.num_samples, cycle |-> w.cycle]]
ExtendData(w) == [w EXCEPT !.experiment_data = Append(@, w.conditions)]
ExtendModels(w) == [w EXCEPT !.models = Append(@, w.cycle)]
ExtendModelsAdditionalDropped(w) == w
ExtendModelsAdditional(w) == [w EXCEPT !.models_additional = Append(@, w.cycle)]

RunnerOutcomes == {"rows", "no_rows", "raises"}
FitOutcomes(w) == IF w.experiment_data = <<>> THEN {"fits", "raises"} ELSE {"fits"}

Experimentalist(w, name, n, next) ==
    LET call == Call("experimentalist", name, n) IN
    Goto(SetConditions(Log(w, call), call), next)

Runner(w, name, outcome, next) ==
    LET v == Log(w, Call("runner", name, w.conditions.num_samples)) IN
    CASE outcome = "rows" -> Goto(ExtendData(v), next)
      [] outcome = "no_rows" -> Goto(v, next)
      [] outcome = "raises" -> Crashed(v, "Exception")

Theorist(w, name, outcome, next) ==
    LET v == Log(w, Call("theorist", name, 0)) IN
    IF outcome = "fits" THEN Goto(ExtendModels(v), next)
    ELSE Crashed(v, "TypeError")

Start(script, type) ==
    [NotStarted EXCEPT
        !.script = script,
        !.RUNNER_TYPE = type,
        !.cycle = IF script = "js_psych_bandit" THEN 1 ELSE 0,
        !.at = CASE script = "js_psych_bandit" -> "pool_on_state"
                 [] script = "mathematical_model_discovery" -> "grid_pool_on_state"
                 [] OTHER -> "experimentalist_on_state"]

\* python <script>.py, in a project the hook has not been run on
WorkflowInit ==
    /\ HookInit
    /\ entry = "main"
    /\ req = UsualRequirements
    /\ net = UsualManifest
    /\ Temp \in dirs
    /\ StagingFiles \subseteq DOMAIN files
    /\ workflow \in
         {Start(s, "none") : s \in Scripts \ {"js_psych_bandit"}}
           \cup {Start("js_psych_bandit", t) : t \in RunnerTypes}

(***************************************************************************)
(* double_sweet.py (lines 149-152, 163-164)                                *)
(***************************************************************************)
ds_experimentalist_on_state ==
    /\ workflow.script = "double_sweet"
    /\ workflow.at = "experimentalist_on_state"
    /\ workflow' = Experimentalist(FirstOfCycle(workflow), "experimentalist_on_state",
                                   DsSamples, "runner_on_state")
    /\ UNCHANGED HookVars

ds_runner_on_state ==
    /\ workflow.script = "double_sweet"
    /\ workflow.at = "runner_on_state"
    /\ \E outcome \in RunnerOutcomes :
         workflow' = Runner(workflow, "runner_on_state", outcome, "theorist_on_state")
    /\ UNCHANGED HookVars

ds_theorist_on_state ==
    /\ workflow.script = "double_sweet"
    /\ workflow.at = "theorist_on_state"
    /\ \E outcome \in FitOutcomes(workflow) :
         LET v == Theorist(workflow, "theorist_on_state", outcome, "for") IN
         workflow' = IF v.at = "for"
                     THEN NextCycle(v, DsCycles - 1, "experimentalist_on_state",
                                    "report_linear_fit")
                     ELSE v
    /\ UNCHANGED HookVars

ds_report_linear_fit ==
    /\ workflow.script = "double_sweet"
    /\ workflow.at = "report_linear_fit"
    /\ workflow' = Goto(workflow, "done")
    /\ UNCHANGED HookVars

(***************************************************************************)
(* js_psych_rdk.py (lines 97-100, 111-112)                                 *)
(***************************************************************************)
rdk_experimentalist_on_state ==
    /\ workflow.script = "js_psych_rdk"
    /\ workflow.at = "experimentalist_on_state"
    /\ workflow' = Experimentalist(FirstOfCycle(workflow), "experimentalist_on_state",
                                   RdkSamples, "runner_on_state")
    /\ UNCHANGED HookVars

rdk_runner_on_state ==
    /\ workflow.script = "js_psych_rdk"
    /\ workflow.at = "runner_on_state"
    /\ \E outcome \in RunnerOutcomes :
         workflow' = Runner(workflow, "runner_on_state", outcome, "theorist_on_state")
    /\ UNCHANGED HookVars

rdk_theorist_on_state ==
    /\ workflow.script = "js_psych_rdk"
    /\ workflow.at = "theorist_on_state"
    /\ \E outcome \in FitOutcomes(workflow) :
         LET v == Theorist(workflow, "theorist_on_state", outcome, "for") IN
         workflow' = IF v.at = "for"
                     THEN NextCycle(v, RdkCycles - 1, "experimentalist_on_state",
                                    "report_linear_fit")
                     ELSE v
    /\ UNCHANGED HookVars

rdk_report_linear_fit ==
    /\ workflow.script = "js_psych_rdk"
    /\ workflow.at = "report_linear_fit"
    /\ workflow' = Goto(workflow, "done")
    /\ UNCHANGED HookVars

(***************************************************************************)
(* mathematical_model_discovery.py (lines 263-273).  Line 271, the call of *)
(* the experiment runner, is commented out: no statement of the loop runs  *)
(* runner_on_state.                                                        *)
(***************************************************************************)
mmd_grid_pool_on_state ==
    /\ workflow.script = "mathematical_model_discovery"
    /\ workflow.at = "grid_pool_on_state"
    /\ workflow' = Experimentalist(FirstOfCycle(workflow), "grid_pool_on_state", 0,
                                   "random_sample_on_state")
    /\ UNCHANGED HookVars

\* lines 266-270: `not cycle % 2` holds for cycles 0 and 2
mmd_random_sample_on_state ==
    /\ workflow.script = "mathematical_model_discovery"
    /\ workflow.at = "random_sample_on_state"
    /\ workflow' =
         IF workflow.cycle % 2 = 0
         THEN Experimentalist(workflow, "random_sample_on_state", MmdFew,
                              "pysr_theorist_on_state")
         ELSE Experimentalist(workflow, "random_sample_on_state", MmdMany,
                              "falsification_sample_on_state")
    /\ UNCHANGED HookVars

\* lines 63-69: models[-1] and experiment_data[ivs]
FalsificationOutcomes(w) ==
    IF w.models = <<>> THEN {"raises"}
    ELSE IF w.experiment_data = <<>> THEN {"samples", "raises"}
    ELSE {"samples"}

mmd_falsification_sample_on_state ==
    /\ workflow.script = "mathematical_model_discovery"
    /\ workflow.at = "falsification_sample_on_state"
    /\ \E outcome \in FalsificationOutcomes(workflow) :
         workflow' =
           IF outcome = "samples"
           THEN Experimentalist(workflow, "falsification_sample_on_state",
                                MmdFalsified, "pysr_theorist_on_state")
           ELSE Crashed(Log(workflow, Call("experimentalist",
                                           "falsification_sample_on_state",
                                           MmdFalsified)),
                        IF workflow.models = <<>> THEN "IndexError" ELSE "TypeError")
    /\ UNCHANGED HookVars

mmd_pysr_theorist_on_state ==
    /\ workflow.script = "mathematical_model_discovery"
    /\ workflow.at = "pysr_theorist_on_state"
    /\ \E outcome \in FitOutcomes(workflow) :
         workflow' = Theorist(workflow, "pysr_theorist_on_state", outcome, "dump_state")
    /\ UNCHANGED HookVars

mmd_dump_state ==
    /\ workflow.script = "mathematical_model_discovery"
    /\ workflow.at = "dump_state"
    /\ workflow' = NextCycle(workflow, MmdCycles - 1, "grid_pool_on_state", "done")
    /\ UNCHANGED HookVars

(***************************************************************************)
(* js_psych_bandit.py (lines 293-323)                                      *)
(***************************************************************************)
\* lines 295-299
bandit_pool_on_state ==
    /\ workflow.script = "js_psych_bandit"
    /\ workflow.at = "pool_on_state"
    /\ workflow' =
         IF Len(workflow.models) > 0
         THEN Experimentalist(FirstOfCycle(workflow), "pool_on_state", PoolSize,
                              "model_disagreement_on_state")
         ELSE Experimentalist(FirstOfCycle(workflow), "pool_on_state",
                              SAMPLES_PER_CYCLE, "runner_on_state")
    /\ UNCHANGED HookVars

\* lines 125-134: models[-1] and models_additional[-1]
bandit_model_disagreement_on_state ==
    /\ workflow.script = "js_psych_bandit"
    /\ workflow.at = "model_disagreement_on_state"
    /\ workflow' =
         IF <<>> \in {workflow.models, workflow.models_additional}
         THEN Crashed(Log(workflow, Call("experimentalist",
                                         "model_disagreement_on_state",
                                         SAMPLES_PER_CYCLE)), "IndexError")
         ELSE Experimentalist(workflow, "model_disagreement_on_state",
                              SAMPLES_PER_CYCLE, "runner_on_state")
    /\ UNCHANGED HookVars

\* lines 301-306; the synthetic runner simulates its participants
BanditRunner(type) ==
    CASE type = "synthetic" -> "runner_on_state_synthetic"
      [] type = "firebase" -> "runner_on_state_firebase"
      [] type = "prolific" -> "runner_on_state_prolific"
BanditRunnerOutcomes(type) == IF type = "synthetic" THEN {"rows"} ELSE RunnerOutcomes

bandit_runner_on_state ==
    /\ workflow.script = "js_psych_bandit"
    /\ workflow.at = "runner_on_state"
    /\ \E outcome \in BanditRunnerOutcomes(workflow.RUNNER_TYPE) :
         workflow' = Runner(workflow, BanditRunner(workflow.RUNNER_TYPE), outcome,
                            "theorist_on_state")
    /\ UNCHANGED HookVars

bandit_theorist_on_state ==
    /\ workflow.script = "js_psych_bandit"
    /\ workflow.at = "theorist_on_state"
    /\ \E outcome \in FitOutcomes(workflow) :
         workflow' = Theorist(workflow, "theorist_on_state", outcome,
                              "theorist_additional_on_state")
    /\ UNCHANGED HookVars

bandit_theorist_additional_on_state ==
    /\ workflow.script = "js_psych_bandit"
    /\ workflow.at = "theorist_additional_on_state"
    /\ \E outcome \in FitOutcomes(workflow) :
         LET v == Log(workflow, Call("theorist", "theorist_additional_on_state", 0)) IN
         workflow' = IF outcome = "fits"
                     THEN Goto(ExtendModelsAdditional(v), "parse_equation")
                     ELSE Crashed(v, "TypeError")
    /\ UNCHANGED HookVars

\* lines 311-323, and the for statement
bandit_parse_equation ==
    /\ workflow.script = "js_psych_bandit"
    /\ workflow.at = "parse_equation"
    /\ workflow' = NextCycle(workflow, CYCLES, "pool_on_state", "done")
    /\ UNCHANGED HookVars

WorkflowNext ==
    \/ ds_experimentalist_on_state
    \/ ds_runner_on_state
    \/ ds_theorist_on_state
    \/ ds_report_linear_fit
    \/ rdk_experimentalist_on_state
    \/ rdk_runner_on_state
    \/ rdk_theorist_on_state
    \/ rdk_report_linear_fit
    \/ mmd_grid_pool_on_state
    \/ mmd_random_sample_on_state
    \/ mmd_falsification_sample_on_state
    \/ mmd_pysr_theorist_on_state
    \/ mmd_dump_state
    \/ bandit_pool_on_state
    \/ bandit_model_disagreement_on_state
    \/ bandit_runner_on_state
    \/ bandit_theorist_on_state
    \/ bandit_theorist_additional_on_state
    \/ bandit_parse_equation

WorkflowSpec == WorkflowInit /\ [][WorkflowNext]_vars

(***************************************************************************)
(* Vocabulary of the properties                                            *)
(***************************************************************************)
Returned == pc = "idle" /\ calls >= 1
FromMain == entry = "main"

ModeSelector == "basic_or_advanced"
MenuBuilder == "create_autora_hub_requirements"
ExampleSelector == "create_autora_example_project"
BasicSetup == "setup_basic"
Cleanup == "clean_up"

Last(s) == s[Len(s)]
Count(s, x) == Cardinality({i \in 1..Len(s) : s[i] = x})
IsPrefixOfOneOf(s, runs) == \E r \in runs : IsPrefix(s, r)

Asked(key) == {i \in 1..Len(prompts) : prompts[i].key = key}
\* the answer given to the List prompt `key`, None when it was not given
AnswerTo(key) ==
    IF \E i \in Asked(key) : ~prompts[i].cancelled
    THEN prompts[CHOOSE i \in Asked(key) : ~prompts[i].cancelled].answer[1]
    ELSE None
ChosenLabel == AnswerTo(<<"project_type">>)

Checkboxes == SelectSeq(prompts, LAMBDA q : q.kind = "Checkbox")
RECURSIVE AnswersOf(_)
AnswersOf(qs) == IF qs = <<>> THEN <<>> ELSE Head(qs).answer \o AnswersOf(Tail(qs))

(***************************************************************************)
(* C1.  As claimed: in every run of main() the stages run in the order     *)
(* Mode Selector, then Dependency Menu Builder followed by Example Project *)
(* Selector, or Basic Setup alone, then Cleanup; the Example Project       *)
(* Selector follows the Dependency Menu Builder whatever was selected.     *)
(***************************************************************************)
C1_StagesLinearAsClaimed ==
    FromMain =>
        IsPrefixOfOneOf(stages,
            {<<ModeSelector, MenuBuilder, ExampleSelector, Cleanup>>,
             <<ModeSelector, BasicSetup, Cleanup>>})

(***************************************************************************)
(* C1, amended.  In every run of main() the stages run in the order Mode   *)
(* Selector, then Dependency Menu Builder or Basic Setup, then Cleanup;    *)
(* the Example Project Selector runs between the Dependency Menu Builder   *)
(* and Cleanup exactly when the firebase-prolific experiment runner is     *)
(* among the selected packages, and Basic Setup never runs in a run with   *)
(* the Dependency Menu Builder.                                            *)
(***************************************************************************)
C1_StagesOrder ==
    FromMain =>
        /\ IsPrefixOfOneOf(stages,
               {<<ModeSelector, MenuBuilder, ExampleSelector, Cleanup>>,
                <<ModeSelector, MenuBuilder, Cleanup>>,
                <<ModeSelector, BasicSetup, Cleanup>>})
        /\ pc = "ex_prompt" => Firebase \in Range(AnswersOf(Checkboxes))
        /\ Len(stages) >= 3 /\ stages[2] = MenuBuilder =>
             (stages[3] = ExampleSelector <=>
                 Firebase \in Range(AnswersOf(Checkboxes)))

C1_SelectorSkipped ==
    /\ FromMain
    /\ pc = "end"
    /\ stages = <<ModeSelector, MenuBuilder, Cleanup>>
    /\ AnswersOf(Checkboxes) # <<>>

(***************************************************************************)
(* C2.  In a run of main() in which no stage raises, clean_up is           *)
(* eventually invoked, exactly once, and no stage runs after it: the run   *)
(* that starts ends crashed, or ends with clean_up as its last and only    *)
(* cleanup stage, and the end state is never left.                         *)
(***************************************************************************)
CleanedUpLast ==
    /\ pc = "end"
    /\ err = "none"
    /\ Count(stages, Cleanup) = 1
    /\ Last(stages) = Cleanup

C2_CleanupRunsLast ==
    /\ (FromMain /\ pc = "main") ~> (pc = "crashed" \/ CleanedUpLast)
    /\ [][pc = "end" => pc' = "end" /\ stages' = stages]_vars
    /\ [](FromMain /\ pc = "end" => CleanedUpLast)

C2_AdvancedRunCleaned ==
    /\ FromMain
    /\ CleanedUpLast
    /\ ChosenLabel = "SweetBean"
    /\ Temp \in pre.dirs

(***************************************************************************)
(* C3.  A run of main() answered 'no' at the Mode Selector in which every  *)
(* move succeeds ends with requirements.txt equal to its prior text plus   *)
(* the one entry 'autora', the four basic files at their destinations,     *)
(* example_workflows, example_mains and readmes gone, and no prompt shown  *)
(* but the Mode Selector's.                                                *)
(***************************************************************************)
BasicRunEnded ==
    /\ FromMain
    /\ pc = "end"
    /\ AnswerTo(<<"advanced">>) = "no"

C3_BasicScenario ==
    BasicRunEnded =>
        /\ req = pre.req \o <<NL, "autora">>
        /\ {DesignMainJs, HubWorkflow, HubReadme, ZoneReadme} \subseteq DOMAIN files
        /\ files[DesignMainJs] = P(ExampleMains, <<"basic", ".js">>)
        /\ files[HubWorkflow] = P(ExampleWorkflows, <<"basic", ".py">>)
        /\ files[HubReadme] = P(Readmes, <<"README_AUTORA", ".md">>)
        /\ files[ZoneReadme] = P(Readmes, <<"README_FIREBASE_", "basic", ".md">>)
        /\ dirs \cap {ExampleWorkflows, ExampleMains, Readmes} = {}
        /\ \A p \in DOMAIN files :
             p.dir \notin {ExampleWorkflows, ExampleMains, Readmes}
        /\ Len(prompts) = 1
        /\ prompts[1].key = <<"advanced">>

C3_BasicRunEnded == BasicRunEnded /\ pre.req = <<"numpy", NL>>

(***************************************************************************)
(* C4.  Answering 'no' at the front-end prompt of the Example Project      *)
(* Selector is a no-op: the step that takes the answer returns, launches   *)
(* no subprocess, shows no further prompt, moves and deletes nothing, and  *)
(* leaves requirements.txt and package.json as they were.                  *)
(***************************************************************************)
AnswersNoToFirebase ==
    /\ pc = "ex_prompt"
    /\ Len(prompts') = Len(prompts) + 1
    /\ Last(prompts').key = <<"firebase">>
    /\ Last(prompts').answer = <<"no">>

C4_NoFrontEndIsNoOp ==
    [][AnswersNoToFirebase =>
          /\ pc' = (IF FromMain THEN "clean_up" ELSE "idle")
          /\ err' = err
          /\ UNCHANGED <<files, dirs, req, pkg, procs>>]_vars

C4_ReturnedAfterNo ==
    /\ entry = ExampleSelector
    /\ Returned
    /\ Len(prompts) = 1
    /\ prompts[1].answer = <<"no">>
    /\ files = pre.files /\ dirs = pre.dirs /\ req = pre.req /\ pkg = pre.pkg
    /\ procs = <<>>

(***************************************************************************)
(* C5.  As claimed: the Dependency Menu Builder issues one multi-select    *)
(* prompt per non-empty optional-dependency group of the manifest, N       *)
(* prompts for N non-empty groups, and the final selection is the          *)
(* concatenation of the answers.                                           *)
(***************************************************************************)
MenuAnswered == pc = "hub_loop" /\ idx > Len(all_deps_clean)

NonEmptyGroups(doc) ==
    {g \in DOMAIN doc.groups : doc.groups[g] # <<>>}
      \cup (IF doc.all # <<>> THEN {<<"all">>} ELSE {})

C5_OnePromptPerGroupAsClaimed ==
    MenuAnswered =>
        /\ Len(Checkboxes) = Cardinality(NonEmptyGroups(net))
        /\ additional_deps = AnswersOf(Checkboxes)

(***************************************************************************)
(* C5, amended.  The Dependency Menu Builder issues one multi-select       *)
(* prompt per entry of the manifest's 'all' group whose named group is     *)
(* non-empty, in the order of 'all': none for an empty group, none for a   *)
(* group 'all' does not list, one per occurrence for a group listed more   *)
(* than once.  The final selection is the concatenation, in that order     *)
(* and in each prompt's answer order, of the answers, duplicates kept.     *)
(***************************************************************************)
\* the group an entry "autora[<group>]" names, and its prompt's key
NamedGroup(e) == SubSeq(e, 3, Len(e) - 1)
KeyOfGroup(g) == IF g # <<>> /\ Head(g) = "all-" THEN Tail(g) ELSE g
ListedNonEmpty(doc) ==
    SelectSeq([i \in 1..Len(doc.all) |-> NamedGroup(doc.all[i])],
              LAMBDA g : doc.groups[g] # <<>>)

C5_OnePromptPerListedGroup ==
    MenuAnswered =>
        LET want == ListedNonEmpty(net) IN
        /\ Len(Checkboxes) = Len(want)
        /\ \A i \in 1..Len(want) :
             /\ Checkboxes[i].key = KeyOfGroup(want[i])
             /\ Checkboxes[i].choices = Range(net.groups[want[i]])
        /\ additional_deps = AnswersOf(Checkboxes)

C5_TwoPromptsWithDuplicate ==
    /\ MenuAnswered
    /\ Len(net.all) = 2
    /\ Len(Checkboxes) = 2
    /\ Checkboxes[1].key # Checkboxes[2].key
    /\ Count(additional_deps, PkgA) = 2
    /\ Head(additional_deps) = PkgA

(***************************************************************************)
(* C6.  As claimed: appending K package identifiers to requirements.txt    *)
(* (by the Dependency Menu Builder, K the number selected, and by Basic    *)
(* Setup, K = 1) raises its line count by exactly K, each identifier on    *)
(* its own line, the prior content unchanged, whatever the prior content.  *)
(***************************************************************************)
Lines(text) ==
    IF text = <<>> THEN <<>>
    ELSE LET pieces == Split(text, NL) IN
         IF Last(text) = NL THEN SubSeq(pieces, 1, Len(pieces) - 1) ELSE pieces

OnOwnLines(text, ids) ==
    LET ls == Lines(text) IN
    /\ Len(ls) >= Len(ids)
    /\ \A i \in 1..Len(ids) : ls[Len(ls) - Len(ids) + i] = <<ids[i]>>

Grew(old, new, ids, blank) ==
    /\ IsPrefix(old, new)
    /\ LineCount(new) = LineCount(old) + Len(ids) + blank
    /\ OnOwnLines(new, ids)

C6_LineCountGrowsByKAsClaimed ==
    /\ entry = MenuBuilder /\ Returned =>
         Grew(pre.req, req, AnswersOf(Checkboxes), 0)
    /\ entry = BasicSetup /\ Returned => Grew(pre.req, req, <<"autora">>, 0)

(***************************************************************************)
(* C6, amended.  Appending K package identifiers to requirements.txt puts  *)
(* each identifier on its own line after the prior content, which stays    *)
(* unchanged; the line count grows by exactly K when the prior content is  *)
(* non-empty and does not end with a newline, and by K + 1 (a blank line   *)
(* comes first) when K > 0 and the prior content is empty or ends with a   *)
(* newline.                                                                *)
(***************************************************************************)
BlankLines(old, ids) ==
    IF ids # <<>> /\ (old = <<>> \/ Last(old) = NL) THEN 1 ELSE 0

C6_LineCountGrows ==
    /\ entry = MenuBuilder /\ Returned =>
         Grew(pre.req, req, AnswersOf(Checkboxes),
              BlankLines(pre.req, AnswersOf(Checkboxes)))
    /\ entry = BasicSetup /\ Returned =>
         Grew(pre.req, req, <<"autora">>, BlankLines(pre.req, <<"autora">>))

C6_TwoAppendedAfterNewline ==
    /\ entry = MenuBuilder
    /\ Returned
    /\ Len(AnswersOf(Checkboxes)) = 2
    /\ pre.req = <<"numpy", NL>>
    /\ LineCount(req) = 4

(***************************************************************************)
(* C7.  For each of the eight template labels, when the main script, the   *)
(* workflow script or the README of the mapped token is missing from the   *)
(* staging directories, the Example Project Selector never gets past the   *)
(* move of that file: it raises there, and does not go on to the next move *)
(* or to the removal of the staging directories.                           *)
(***************************************************************************)
TokenOfLabel(label) ==
    CASE label = "Blank" -> "basic"
      [] label = "Double Sweet" -> "double_sweet"
      [] label = "JsPsych - Stroop" -> "js_psych_stroop"
      [] label = "JsPsych - RDK" -> "js_psych_rdk"
      [] label = "JsPsych - Bandit" -> "js_psych_bandit"
      [] label = "SuperExperiment" -> "super_experiment"
      [] label = "SweetBean" -> "sweet_bean"
      [] label = "Mathematical Model Discovery" -> "mathematical_model_discovery"

AfterMoves ==
    {"ex_rm_workflows", "ex_rm_mains", "ex_rm_css", "ex_rm_readmes",
     "clean_up", "end", "idle"}
AfterMainMove == {"ex_mv_workflow", "ex_mv_readme_hub", "ex_mv_readme_zone"} \cup AfterMoves
AfterWorkflowMove == {"ex_mv_readme_hub", "ex_mv_readme_zone"} \cup AfterMoves

C7_MissingFileFails ==
    ChosenLabel # None =>
        LET t == TokenOfLabel(ChosenLabel) IN
        /\ P(ExampleMains, <<t, ".js">>) \notin DOMAIN pre.files
             => pc \notin AfterMainMove
        /\ P(ExampleWorkflows, <<t, ".py">>) \notin DOMAIN pre.files
             => pc \notin AfterWorkflowMove
        /\ P(Readmes, <<"README_FIREBASE_", t, ".md">>) \notin DOMAIN pre.files
             => pc \notin AfterMoves

C7_MissingWorkflowRaised ==
    /\ ChosenLabel = "Double Sweet"
    /\ npm_package_file = PackageJson
    /\ P(ExampleWorkflows, <<"double_sweet", ".py">>) \notin DOMAIN pre.files
    /\ DesignMainJs \in DOMAIN files
    /\ files[DesignMainJs] = P(ExampleMains, <<"double_sweet", ".js">>)
    /\ pc = "crashed"
    /\ err = "FileNotFoundError"

(***************************************************************************)
(* C8.  clean_up is idempotent: it never raises; after any invocation the  *)
(* temp directory does not exist; a second invocation in a row, or an      *)
(* invocation when there was no temp directory, changes nothing on the     *)
(* file system.                                                            *)
(***************************************************************************)
NoTemp == Temp \notin dirs /\ \A p \in DOMAIN files : ~Under(p.dir, Temp)

C8_CleanupIdempotent ==
    /\ entry = Cleanup =>
         /\ pc # "crashed" /\ err = "none"
         /\ Returned => NoTemp
         /\ Returned /\ (calls >= 2 \/ Temp \notin pre.dirs) =>
              files = pre.files /\ dirs = pre.dirs /\ req = pre.req /\ pkg = pre.pkg
    /\ FromMain /\ pc = "end" => NoTemp

C8_CleanedTwice ==
    /\ entry = Cleanup
    /\ Returned
    /\ calls = 2
    /\ Len(procs) = 1
    /\ procs[1].cmd = Deactivate

(***************************************************************************)
(* C9.  As claimed: when 'Double Sweet' is chosen in a run started from    *)
(* main(), package.json is read, its dependencies receive the three fixed  *)
(* entries, the file is rewritten with every other key and dependency      *)
(* unchanged, and the run goes on to move the double_sweet files.          *)
(***************************************************************************)
C9_DoubleSweetManifestFromMain ==
    FromMain /\ ChosenLabel = "Double Sweet"
      /\ pc \notin {"ex_double_append", "ex_double_manifest"} =>
        /\ pkg.format = "indent=2"
        /\ pkg.name = TemplatePackage.name
        /\ DOMAIN pkg.dependencies =
             {"react", "jspsych", "@jspsych-contrib/plugin-rok", "sweetbean"}
        /\ pkg.dependencies["@jspsych-contrib/plugin-rok"] = "^1.1.1"
        /\ pkg.dependencies["jspsych"] = "^7.3.1"
        /\ pkg.dependencies["sweetbean"] = "^0.0.7"
        /\ pkg.dependencies["react"] = TemplateDeps["react"]
        /\ err # "TypeError"

(***************************************************************************)
(* C10.  The Example Project Selector maps each of the eight labels to its *)
(* token, and once its four moves have succeeded main.js, the workflow and *)
(* the testing-zone README are the staged files of that token and the      *)
(* researcher-hub README is README_AUTORA.md.                              *)
(***************************************************************************)
C10_LabelDecidesFiles ==
    /\ project_type # None => example_file = TokenOfLabel(project_type)
    /\ ChosenLabel # None /\ pc \in AfterMoves =>
         LET t == TokenOfLabel(ChosenLabel) IN
         /\ {DesignMainJs, HubWorkflow, HubReadme, ZoneReadme} \subseteq DOMAIN files
         /\ files[DesignMainJs] = P(ExampleMains, <<t, ".js">>)
         /\ files[HubWorkflow] = P(ExampleWorkflows, <<t, ".py">>)
         /\ files[ZoneReadme] = P(Readmes, <<"README_FIREBASE_", t, ".md">>)
         /\ files[HubReadme] = P(Readmes, <<"README_AUTORA", ".md">>)

C10_DoubleSweetInPlace ==
    /\ entry = ExampleSelector
    /\ Returned
    /\ ChosenLabel = "Double Sweet"
    /\ files[HubWorkflow] = P(ExampleWorkflows, <<"double_sweet", ".py">>)
    /\ pkg.dependencies["sweetbean"] = "^0.0.7"

(***************************************************************************)
(* C11.  As claimed: Basic Setup and the Example Project Selector answered *)
(* 'yes' remove the same three staging directories; when either has        *)
(* returned, the directories gone since it started are exactly             *)
(* example_workflows, example_mains and readmes.                           *)
(***************************************************************************)
Removed == pre.dirs \ dirs
ThreeStaging == {ExampleWorkflows, ExampleMains, Readmes}

C11_SameThreeDirsAsClaimed ==
    /\ entry = BasicSetup /\ Returned => Removed = ThreeStaging
    /\ entry = ExampleSelector /\ Returned /\ ChosenLabel # None =>
         Removed = ThreeStaging

(***************************************************************************)
(* C11, amended.  When Basic Setup has returned, the directories gone are  *)
(* exactly example_workflows, example_mains and readmes, and example_css   *)
(* is still there; when the Example Project Selector answered 'yes' has    *)
(* returned, the directories gone are exactly those three and example_css. *)
(* The same holds in a run of main() when the stage hands over to          *)
(* clean_up.  No other directory is deleted by either.                     *)
(***************************************************************************)
C11_StagingDirsRemoved ==
    /\ entry = BasicSetup /\ Returned =>
         Removed = ThreeStaging /\ ExampleCss \in dirs
    /\ entry = ExampleSelector /\ Returned /\ ChosenLabel # None =>
         Removed = ThreeStaging \cup {ExampleCss}
    /\ FromMain /\ pc = "clean_up" /\ BasicSetup \in Range(stages) =>
         Removed = ThreeStaging /\ ExampleCss \in dirs
    /\ FromMain /\ pc = "clean_up" /\ ChosenLabel # None =>
         Removed = ThreeStaging \cup {ExampleCss}

C11_CssDirRemovedBySelector ==
    /\ entry = ExampleSelector
    /\ Returned
    /\ ChosenLabel = "JsPsych - Stroop"
    /\ ExampleCss \in pre.dirs
    /\ ExampleCss \notin dirs
    /\ Removed = StagingDirs

(***************************************************************************)
(* C12.  As claimed: two of the eight labels make the Example Project      *)
(* Selector append to the requirements file, the two the selector has      *)
(* extra steps for (Double Sweet: the package.json edit, JsPsych - Bandit: *)
(* the stylesheet); with any of the other six labels the requirements      *)
(* file is what it was when the selector was called.                       *)
(***************************************************************************)
TwoLabels == {"Double Sweet", "JsPsych - Bandit"}
MovePcs == {"ex_mv_main", "ex_mv_workflow", "ex_mv_readme_hub", "ex_mv_readme_zone"}

C12_TwoLabelsAppendAsClaimed ==
    entry = ExampleSelector /\ ChosenLabel \notin TwoLabels \cup {None} =>
        req = pre.req

(***************************************************************************)
(* C12, amended.  Three of the eight labels make the Example Project       *)
(* Selector append to the requirements file: SweetBean appends the line    *)
(* sweetbean, Double Sweet the lines sweetbean and sweetpea, JsPsych -     *)
(* Bandit the line autora-theorist-rnn-sindy-rl, each after a newline;     *)
(* with any of the other five labels the file is left unchanged.  In a run *)
(* of main() the same text follows the selections of the menu builder.     *)
(***************************************************************************)
ThreeLabels == {"SweetBean", "Double Sweet", "JsPsych - Bandit"}
ExtraText(label) ==
    CASE label = "SweetBean" -> <<NL, "sweetbean">>
      [] label = "Double Sweet" -> <<NL, "sweetbean", NL, "sweetpea">>
      [] label = "JsPsych - Bandit" -> <<NL, "autora-theorist-rnn-sindy-rl">>
      [] OTHER -> <<>>

C12_ThreeLabelsAppend ==
    /\ entry = ExampleSelector =>
         /\ IsPrefix(pre.req, req)
         /\ req # pre.req => ChosenLabel \in ThreeLabels
         /\ ChosenLabel # None /\ pc \in MovePcs \cup AfterMoves =>
              req = pre.req \o ExtraText(ChosenLabel)
    /\ FromMain /\ ChosenLabel # None /\ pc \in MovePcs \cup AfterMoves =>
         req = AppendAll(pre.req, AnswersOf(Checkboxes)) \o ExtraText(ChosenLabel)

C12_SweetBeanAppended ==
    /\ entry = ExampleSelector
    /\ Returned
    /\ ChosenLabel = "SweetBean"
    /\ req = pre.req \o <<NL, "sweetbean">>

(***************************************************************************)
(* C13.  A command launched with subprocess.call (the npm install of       *)
(* firebase-tools, the npx create-react-app scaffold, deactivate) that     *)
(* exits non-zero raises nothing: the step that launched it leaves err     *)
(* alone and hands over to the same next statement as after exit code      *)
(* zero, and clean_up still removes temp after a failed deactivate.        *)
(***************************************************************************)
Called == {Deactivate, NpmInstall, Npx}
AfterCall(at) ==
    CASE at = "basic_npm" -> "basic_scaffold"
      [] at = "basic_scaffold" -> "basic_append"
      [] at = "ex_scaffold" -> "ex_type"
      [] at = "clean_up" -> ReturnTo("end")
      [] OTHER -> "crashed"

C13_ExitCodeIgnored ==
    [][Len(procs') = Len(procs) + 1 /\ Last(procs').cmd \in Called
         /\ Last(procs').exit \in Exits =>
           /\ err' = err
           /\ pc' # "crashed"
           /\ pc' = AfterCall(pc)
           /\ Last(procs').cmd = Deactivate => Temp \notin dirs']_vars

C13_FailedCallsRunEnded ==
    /\ FromMain
    /\ pc = "end"
    /\ err = "none"
    /\ Len(procs) = 4
    /\ procs[2] = Proc(NpmInstall, "nonzero")
    /\ procs[3].cmd = Npx
    /\ procs[4] = Proc(Deactivate, "nonzero")

(***************************************************************************)
(* C14.  When the manifest cannot be fetched, or lacks the project /       *)
(* optional-dependencies / all keys, or has an 'all' entry without a       *)
(* bracketed group name, or names a group that is absent, a call of        *)
(* create_autora_hub_requirements never returns: it is still in its loop   *)
(* with a failing iteration ahead, or the run has ended with the error     *)
(* (ConnectionError, KeyError or IndexError), and neither the Example      *)
(* Project Selector nor Cleanup has run.                                   *)
(***************************************************************************)
BadManifest(doc) ==
    \/ doc.shape # "ok"
    \/ \E i \in 1..Len(doc.all) : "[" \notin Range(doc.all[i])
    \/ \E i \in 1..Len(doc.all) :
         /\ "[" \in Range(doc.all[i])
         /\ CleanDep(doc.all[i]) \notin DOMAIN doc.groups

C14_ManifestFailureFatal ==
    entry \in {"main", MenuBuilder} /\ MenuBuilder \in Range(stages)
      /\ BadManifest(net) =>
        /\ pc \in {"hub_loop", "crashed"}
        /\ ExampleSelector \notin Range(stages)
        /\ Cleanup \notin Range(stages)
        /\ pc = "crashed" => err \in {"ConnectionError", "KeyError", "IndexError"}
        /\ pc = "hub_loop" =>
             \E i \in idx..Len(all_deps_clean) :
                 all_deps_clean[i] \notin DOMAIN net.groups

C14_AbsentGroupAfterPrompt ==
    /\ FromMain
    /\ pc = "crashed"
    /\ err = "KeyError"
    /\ net.shape = "ok"
    /\ Last(stages) = MenuBuilder
    /\ Len(Checkboxes) >= 1
    /\ \A i \in 1..Len(prompts) : ~prompts[i].cancelled

(***************************************************************************)
(* C15.  The requirements file is append-only: in every state of every     *)
(* run, ended in an error or not, the text the file had when the run       *)
(* started is a prefix of its text now, and every single step leaves the   *)
(* text it found as a prefix of the text it leaves.                        *)
(***************************************************************************)
C15_RequirementsAppendOnly ==
    /\ [](IsPrefix(pre.req, req))
    /\ [][IsPrefix(req, req')]_vars

C15_AppendedThenCrashed ==
    /\ pc = "crashed"
    /\ pre.req # <<>>
    /\ Len(req) > Len(pre.req)
    /\ IsPrefix(pre.req, req)

(***************************************************************************)
(* C16.  As claimed: in every example workflow script, whenever a theorist *)
(* has been called in the current iteration of the loop, an experiment     *)
(* runner was called before it in that iteration, after an                 *)
(* experimentalist, with no experimentalist called in between.             *)
(***************************************************************************)
RunnerBefore(ran, i) ==
    \E j \in 1..(i - 1) :
        /\ ran[j].kind = "runner"
        /\ \E k \in 1..(j - 1) : ran[k].kind = "experimentalist"
        /\ \A k \in (j + 1)..(i - 1) : ran[k].kind # "experimentalist"

C16_LoopOrderAsClaimed ==
    \A i \in 1..Len(workflow.ran) :
        workflow.ran[i].kind = "theorist" => RunnerBefore(workflow.ran, i)

(***************************************************************************)
(* C17.  As claimed: every invocation of clean_up launches deactivate,     *)
(* with or without a temp directory, and leaves no temp directory: when    *)
(* clean_up has returned there are as many deactivate commands as          *)
(* invocations, and a finished run of main() has launched one.             *)
(***************************************************************************)
Launched(cmd) == Cardinality({i \in 1..Len(procs) : procs[i].cmd = cmd})

C17_DeactivateEveryInvocationAsClaimed ==
    /\ entry = Cleanup /\ Returned => Launched(Deactivate) = calls /\ NoTemp
    /\ FromMain /\ pc = "end" => Launched(Deactivate) = 1 /\ NoTemp

(***************************************************************************)
(* C17, amended.  clean_up launches deactivate exactly when the temp       *)
(* directory exists as it is invoked (whether or not a virtual environment *)
(* is active, and whatever deactivate exits with) and then removes the     *)
(* directory; invoked without a temp directory it launches nothing.  In    *)
(* both cases no temp directory is left.                                   *)
(***************************************************************************)
C17_DeactivateOnlyWithTemp ==
    /\ entry = Cleanup /\ Returned =>
         /\ NoTemp
         /\ Len(procs) - pre.procs = (IF Temp \in pre.dirs THEN 1 ELSE 0)
         /\ Launched(Deactivate) = Len(procs)
    /\ FromMain /\ pc = "end" =>
         /\ NoTemp
         /\ Launched(Deactivate) = (IF Temp \in pre.dirs THEN 1 ELSE 0)

C17_NothingLaunchedWithoutTemp ==
    /\ entry = Cleanup
    /\ Returned
    /\ calls = 1
    /\ Temp \notin pre.dirs
    /\ procs = <<>>

(***************************************************************************)
(* C18.  As claimed: the firebase version probe of Basic Setup never       *)
(* raises.  When it exits zero the next command is the scaffold; when it   *)
(* exits non-zero or the firebase executable is absent the check returns   *)
(* False, Basic Setup goes on to the npm install of firebase-tools, and    *)
(* the scaffold comes after the install.                                   *)
(***************************************************************************)
Probed == Len(procs) >= 1 /\ procs[1].cmd = FirebaseVersion

C18_ProbeNeverRaisesAsClaimed ==
    Probed =>
        IF procs[1].exit = "zero"
        THEN /\ Len(procs) = 1 => pc = "basic_scaffold" /\ err = "none"
             /\ Len(procs) >= 2 => procs[2].cmd = Npx
        ELSE /\ Len(procs) = 1 => pc = "basic_npm" /\ err = "none"
             /\ Len(procs) >= 2 => procs[2].cmd = NpmInstall
             /\ Len(procs) >= 3 => procs[3].cmd = Npx

(***************************************************************************)
(* C19.  create_autora_hub_requirements writes to the requirements file    *)
(* only after its last prompt: while it is in its loop, and when it has    *)
(* ended in an error (of the fetch, the parse, a group lookup or a prompt, *)
(* also after earlier prompts were answered), the file is what it was      *)
(* before the call; when it has returned, the file is that text followed   *)
(* by the selections.                                                      *)
(***************************************************************************)
InMenuBuilder ==
    /\ entry \in {"main", MenuBuilder}
    /\ stages # <<>>
    /\ Last(stages) = MenuBuilder
    /\ pc \in {"hub_loop", "crashed"}

C19_NoWriteBeforeLastPrompt ==
    /\ InMenuBuilder => req = pre.req
    /\ entry = MenuBuilder /\ Returned =>
         req = AppendAll(pre.req, AnswersOf(Checkboxes))

C19_CrashedAfterSelection ==
    /\ InMenuBuilder
    /\ pc = "crashed"
    /\ \E i \in 1..Len(prompts) :
         /\ prompts[i].kind = "Checkbox"
         /\ ~prompts[i].cancelled
         /\ prompts[i].answer # <<>>
    /\ req = pre.req
    /\ req # <<>>

(***************************************************************************)
(* C20.  In setup_basic and create_autora_example_project a staging        *)
(* directory is gone only once the four moves have succeeded: whenever one *)
(* is gone, the run has not ended in an error and the four files are in    *)
(* their places.  The step that fails (a move, the Double Sweet            *)
(* package.json edit, the Bandit css mkdir or move) changes nothing on     *)
(* disk, so what was appended and moved before it stays: after a failure   *)
(* with Double Sweet the two lines are still in the requirements file.     *)
(***************************************************************************)
TokenInUse ==
    IF BasicSetup \in Range(stages) THEN "basic"
    ELSE IF ChosenLabel # None THEN TokenOfLabel(ChosenLabel)
    ELSE None

FourMoved(t) ==
    /\ {DesignMainJs, HubWorkflow, HubReadme, ZoneReadme} \subseteq DOMAIN files
    /\ files[DesignMainJs] = P(ExampleMains, <<t, ".js">>)
    /\ files[HubWorkflow] = P(ExampleWorkflows, <<t, ".py">>)
    /\ files[HubReadme] = P(Readmes, <<"README_AUTORA", ".md">>)
    /\ files[ZoneReadme] = P(Readmes, <<"README_FIREBASE_", t, ".md">>)

C20_NoRemovalBeforeMoves ==
    /\ [](~(StagingDirs \subseteq dirs) =>
            /\ pc # "crashed"
            /\ TokenInUse # None
            /\ FourMoved(TokenInUse))
    /\ [](entry = ExampleSelector /\ pc = "crashed"
            /\ ChosenLabel = "Double Sweet" =>
              req = pre.req \o <<NL, "sweetbean", NL, "sweetpea">>)
    /\ [][pc' = "crashed" => UNCHANGED <<files, dirs, req, pkg>>]_vars

C20_BanditFailedAfterCss ==
    /\ entry = ExampleSelector
    /\ pc = "crashed"
    /\ err = "FileNotFoundError"
    /\ ChosenLabel = "JsPsych - Bandit"
    /\ SlotMachineCss \in DOMAIN files
    /\ req = pre.req \o <<NL, "autora-theorist-rnn-sindy-rl">>
    /\ StagingDirs \subseteq dirs

(***************************************************************************)
(* C21.  In the loop of js_psych_bandit.py, at the start of cycle c        *)
(* state.models and state.models_additional both hold c - 1 models, at     *)
(* the end of cycle c both hold c, and after the loop both hold CYCLES.    *)
(* The model-disagreement sampler is called only in a cycle that started   *)
(* with a model in each list, which is every cycle but the first: there    *)
(* it follows a pool of PoolSize samples, while the first cycle calls the  *)
(* pool alone, with SAMPLES_PER_CYCLE samples.                             *)
(***************************************************************************)
Disagreement == "model_disagreement_on_state"
FittedBefore(models, cycle) == \E j \in 1..Len(models) : models[j] < cycle
BothHold(w, n) == Len(w.models) = n /\ Len(w.models_additional) = n

C21_BanditListsInStep ==
    LET w == workflow IN
    w.script = "js_psych_bandit" =>
        /\ w.at = "pool_on_state" => BothHold(w, w.cycle - 1)
        /\ w.at = "parse_equation" => BothHold(w, w.cycle)
        /\ w.at = "done" => BothHold(w, CYCLES)
        /\ w.at # "pool_on_state" =>
             /\ \A i \in 1..Len(w.ran) :
                  w.ran[i].name = Disagreement =>
                      /\ w.cycle > 1
                      /\ FittedBefore(w.models, w.cycle)
                      /\ FittedBefore(w.models_additional, w.cycle)
             /\ w.ran[1].name = "pool_on_state"
             /\ w.cycle = 1 =>
                  /\ w.ran[1].num_samples = SAMPLES_PER_CYCLE
                  /\ Len(w.ran) >= 2 => w.ran[2].kind = "runner"
             /\ w.cycle > 1 =>
                  /\ w.ran[1].num_samples = PoolSize
                  /\ Len(w.ran) >= 2 =>
                       w.ran[2] = Call("experimentalist", Disagreement,
                                       SAMPLES_PER_CYCLE)

C21_BanditLoopDone ==
    /\ workflow.script = "js_psych_bandit"
    /\ workflow.at = "done"
    /\ workflow.cycle = CYCLES
    /\ BothHold(workflow, CYCLES)
    /\ Len(workflow.ran) >= 2
    /\ workflow.ran[2].name = Disagreement

====
